---- MODULE Spec2Model ----
(***************************************************************************)
(* Model of app.py, the Streamlit dashboard of senior centers.             *)
(*                                                                         *)
(* One run of the script is a walk of pc through its sections:             *)
(*   load (1) -> rename (2) -> detect (3) -> coerce (4) -> widgets (5)     *)
(*   -> filter (6) -> bar (7-1) -> map (7-2) -> download (8) -> done.      *)
(* A widget interaction reruns the script from the top.                    *)
(*                                                                         *)
(* Text is a sequence of one-character strings.  The module is ASCII, so   *)
(* the Korean literals of the source are romanised:                        *)
(*   "siseolmyeong" = 시설명      "gyeongnodangmyeong" = 경로당명           *)
(*   "doromyeong"   = 도로명      "jibeon" = 지번       "juso" = 주소       *)
(*   "sojaeji"      = 소재지      "wido"   = 위도       "gyeongdo" = 경도   *)
(*   "sido"         = 시도        "jeonhwabeonho" = 전화번호                *)
(*   <<"(", "jeon", "guk", ")">> = the four characters of (전국)           *)
(* A column name is the sequence of its parts, so that the substring test  *)
(* `"도로명" in c` of the source is a test on the parts of c.               *)
(*                                                                         *)
(* pandas is modelled as pandas 1.x/2.x with object-dtype text columns.    *)
(***************************************************************************)
EXTENDS Integers, Sequences, FiniteSets, TLC

VARIABLES file, cache, pc, enc_i, last_err, tried, df_raw, addr_col, ui,
          sel_sido, keyword, df, bar, korea, view_state, out, err, steps

vars == <<file, cache, pc, enc_i, last_err, tried, df_raw, addr_col, ui,
          sel_sido, keyword, df, bar, korea, view_state, out, err, steps>>

(***************************************************************************)
(* Bounds of the model.                                                    *)
(***************************************************************************)
MaxRows == 3

(***************************************************************************)
(* Cells.  A cell of a table is missing (NaN), a text or a number.         *)
(***************************************************************************)
NA == [k |-> "na", s |-> <<>>, n |-> 0]

Str(t) == [k |-> "str", s |-> t, n |-> 0]

Num(v) == [k |-> "num", s |-> <<>>, n |-> v]

None == <<"None">>

(***************************************************************************)
(* Section 0: settings.                                                    *)
(***************************************************************************)
ENCODINGS_cp949_first == <<"cp949", "utf-8-sig", "euc-kr">>

ENCODINGS == <<"utf-8-sig", "cp949", "euc-kr">>

SIDO_ALL == <<"(", "jeon", "guk", ")">>

(***************************************************************************)
(* Column names.                                                           *)
(***************************************************************************)
siseolmyeong == <<"siseolmyeong">>

doromyeongjuso == <<"doromyeong", "juso">>

jibeonjuso == <<"jibeon", "juso">>

col_lat == <<"lat">>

col_lon == <<"lon">>

col_sido == <<"sido">>

(* rename_map, section 2 *)
rename_keys ==
    { <<"FLCT_NM">>, <<"LCTN_ROAD_NM_ADDR">>, <<"LCTN_LOTNO_ADDR">>,
      <<"LAT">>, <<"wido">>, <<"LOT">>, <<"gyeongdo">>,
      <<"gyeongnodangmyeong">>, <<"sojaeji", "doromyeong", "juso">>,
      <<"sojaeji", "jibeon", "juso">> }

rename_map(c) ==
    CASE c = <<"FLCT_NM">> -> siseolmyeong
      [] c = <<"LCTN_ROAD_NM_ADDR">> -> doromyeongjuso
      [] c = <<"LCTN_LOTNO_ADDR">> -> jibeonjuso
      [] c = <<"LAT">> -> col_lat
      [] c = <<"wido">> -> col_lat
      [] c = <<"LOT">> -> col_lon
      [] c = <<"gyeongdo">> -> col_lon
      [] c = <<"gyeongnodangmyeong">> -> siseolmyeong
      [] c = <<"sojaeji", "doromyeong", "juso">> -> doromyeongjuso
      [] c = <<"sojaeji", "jibeon", "juso">> -> jibeonjuso

(***************************************************************************)
(* Characters and text.                                                    *)
(***************************************************************************)
IsSpace(ch) == ch = " "

(* str.lower on one character *)
LowerChar(ch) ==
    CASE ch = "A" -> "a"
      [] ch = "B" -> "b"
      [] ch = "S" -> "s"
      [] OTHER -> ch

(* str.lower on one part of a column name *)
LowerPart(p) ==
    CASE p = "LAT" -> "lat"
      [] p = "LOT" -> "lot"
      [] p = "Latitude" -> "latitude"
      [] p = "FLCT_NM" -> "flct_nm"
      [] p = "LCTN_ROAD_NM_ADDR" -> "lctn_road_nm_addr"
      [] p = "LCTN_LOTNO_ADDR" -> "lctn_lotno_addr"
      [] OTHER -> p

Lower(c) == [i \in 1..Len(c) |-> LowerPart(c[i])]

(* `part in c` on a column name *)
Contains(c, part) == \E i \in 1..Len(c) : c[i] = part

Drop(s, n) == SubSeq(s, n + 1, Len(s))

RECURSIVE SkipSpaces(_)
SkipSpaces(s) ==
    IF s # <<>> /\ IsSpace(s[1]) THEN SkipSpaces(Drop(s, 1)) ELSE s

RECURSIVE TakeToken(_)
TakeToken(s) ==
    IF s = <<>> \/ IsSpace(s[1]) THEN <<>>
    ELSE <<s[1]>> \o TakeToken(Drop(s, 1))

(* str.split() splitting at a single blank, the mutant of Split *)
RECURSIVE SplitAtEachSpace(_)
SplitAtEachSpace(s) ==
    LET tok == TakeToken(s)
    IN  IF Len(tok) = Len(s) THEN <<tok>>
        ELSE <<tok>> \o SplitAtEachSpace(Drop(s, Len(tok) + 1))

(* str.split() with no separator: runs of whitespace separate the tokens, *)
(* leading and trailing whitespace gives no empty token                   *)
RECURSIVE Split(_)
Split(s) ==
    LET t == SkipSpaces(s)
        tok == TakeToken(t)
    IN  IF t = <<>> THEN <<>>
        ELSE <<tok>> \o Split(Drop(t, Len(tok)))

(* Series.astype(str) on one cell of an object column: NaN becomes "nan" *)
astype_str(cell) ==
    CASE cell.k = "str" -> cell.s
      [] cell.k = "na" -> <<"n", "a", "n">>

(* .str[0] after .str.split(): the first token, NaN when there is none *)
FirstOrNaN(tokens) == IF tokens = <<>> THEN NA ELSE Str(tokens[1])

(* line 64 on one cell *)
RegionOf(cell) == FirstOrNaN(Split(astype_str(cell)))

(***************************************************************************)
(* The CSV files of the model: a header and up to MaxRows records.         *)
(***************************************************************************)
Records ==
    { [name |-> Str(<<"a", "b">>), road |-> Str(<<"S", " ", "a">>),
       lot |-> Str(<<"B", " ", "x">>), lat |-> Num(37), lon |-> Num(127)],
      [name |-> Str(<<"A", ".">>), road |-> Str(<<"S">>),
       lot |-> Str(<<"S">>), lat |-> Str(<<"3", "3">>), lon |-> Num(132)],
      [name |-> Str(<<"c">>), road |-> Str(<<" ", "B", " ", "b">>),
       lot |-> NA, lat |-> Num(40), lon |-> Num(127)],
      [name |-> NA, road |-> NA,
       lot |-> Str(<<"B">>), lat |-> NA, lon |-> Str(<<"x">>)],
      [name |-> Str(<<"b">>), road |-> Str(<<" ">>),
       lot |-> Str(<<"S", " ", "b">>), lat |-> Num(38), lon |-> Num(133)] }

Headers ==
    { << <<"FLCT_NM">>, <<"LCTN_ROAD_NM_ADDR">>, <<"LCTN_LOTNO_ADDR">>,
         <<"LAT">>, <<"LOT">> >>,
      << <<"gyeongnodangmyeong">>, <<"sojaeji", "jibeon", "juso">>,
         <<"sojaeji", "doromyeong", "juso">>, <<"wido">>, <<"gyeongdo">> >>,
      << siseolmyeong, jibeonjuso, <<"Latitude">>, <<"lng">> >>,
      << siseolmyeong, doromyeongjuso >>,
      << siseolmyeong, doromyeongjuso, <<"wido">> >>,
      << siseolmyeong, <<"jeonhwabeonho">>, <<"wido">>, <<"gyeongdo">> >>,
      << doromyeongjuso, <<"wido">>, <<"gyeongdo">> >> }

(* the cell of record r under the header name c *)
FieldOf(r, c) ==
    CASE c \in {<<"FLCT_NM">>, <<"gyeongnodangmyeong">>, siseolmyeong} -> r.name
      [] Contains(c, "doromyeong") \/ c = <<"LCTN_ROAD_NM_ADDR">> -> r.road
      [] Contains(c, "jibeon") \/ c = <<"LCTN_LOTNO_ADDR">> -> r.lot
      [] c \in {<<"LAT">>, <<"wido">>, <<"Latitude">>} -> r.lat
      [] c \in {<<"LOT">>, <<"gyeongdo">>, <<"lng">>} -> r.lon
      [] OTHER -> Str(<<"0">>)

SeqsUpTo(S, n) == UNION {[1..m -> S] : m \in 0..n}

(* the encodings that decode the bytes of a file; cp949 extends euc-kr *)
Decodables ==
    {D \in SUBSET {"utf-8-sig", "cp949", "euc-kr"} :
        "euc-kr" \in D => "cp949" \in D}

(* the table read does not depend on the encoding that decoded it, so the *)
(* longer tables are taken in files that every encoding decodes          *)
Files ==
    {f \in [decodable : Decodables, columns : Headers,
             records : SeqsUpTo(Records, MaxRows)] :
        f.decodable = {"utf-8-sig", "cp949", "euc-kr"} \/ Len(f.records) <= 1}

(***************************************************************************)
(* DataFrames: columns, index labels and rows of cells, in parallel.       *)
(***************************************************************************)
NoTable == [columns |-> <<>>, index |-> <<>>, rows |-> <<>>, enc |-> "none"]

(* pd.read_csv(path, encoding=enc) when enc decodes the file.  The file is *)
(* one that exists and parses: the only failure of a read that the model  *)
(* holds is the UnicodeDecodeError of an encoding outside f.decodable.    *)
read_csv(f, enc) ==
    [columns |-> f.columns,
     index |-> [i \in 1..Len(f.records) |-> i],
     rows |-> [i \in 1..Len(f.records) |->
                  [j \in 1..Len(f.columns) |-> FieldOf(f.records[i], f.columns[j])]],
     enc |-> enc]

HasCol(d, c) == \E j \in 1..Len(d.columns) : d.columns[j] = c

ColIndex(d, c) ==
    CHOOSE j \in 1..Len(d.columns) :
        d.columns[j] = c /\ \A h \in 1..(j - 1) : d.columns[h] # c

(* d[c], the cells of column c *)
Col(d, c) == [i \in 1..Len(d.rows) |-> d.rows[i][ColIndex(d, c)]]

(* the positions of d kept by a boolean mask, in order *)
RECURSIVE Kept(_, _)
Kept(mask, i) ==
    IF i > Len(mask) THEN <<>>
    ELSE (IF mask[i] THEN <<i>> ELSE <<>>) \o Kept(mask, i + 1)

(* d[mask] *)
Take(d, mask) ==
    LET ks == Kept(mask, 1)
    IN  [d EXCEPT !.index = [i \in 1..Len(ks) |-> d.index[ks[i]]],
                  !.rows = [i \in 1..Len(ks) |-> d.rows[ks[i]]]]

(* a column of text cells has dtype object and carries the .str accessor; *)
(* a column of NaN only is float64 and does not                           *)
HasStrAccessor(d, c) ==
    d.rows = <<>> \/ \E i \in 1..Len(d.rows) : Col(d, c)[i].k = "str"

(***************************************************************************)
(* Initial state: the script is about to run for the first time in a new   *)
(* session, nothing is cached and the widgets hold their defaults.         *)
(***************************************************************************)
NoView == [n |-> 0, lat_sum |-> 0, lon_sum |-> 0, zoom |-> 0]

Init ==
    /\ file \in Files
    /\ cache = NoTable
    /\ pc = "load"
    /\ enc_i = 1
    /\ last_err = "None"
    /\ tried = <<>>
    /\ df_raw = NoTable
    /\ addr_col = None
    /\ ui = [sido |-> SIDO_ALL, keyword |-> <<>>]
    /\ sel_sido = SIDO_ALL
    /\ keyword = <<>>
    /\ df = NoTable
    /\ bar = <<>>
    /\ korea = NoTable
    /\ view_state = NoView
    /\ out = <<>>
    /\ err = "none"
    /\ steps = <<>>

(***************************************************************************)
(* Section 1: load_csv, behind st.cache_data.                              *)
(***************************************************************************)
(* the cache holds the table of an earlier run: load_csv is not executed *)
LoadCached ==
    /\ pc = "load"
    /\ cache # NoTable
    /\ df_raw' = cache
    /\ pc' = "rename"
    /\ steps' = Append(steps, "load")
    /\ UNCHANGED <<file, cache, enc_i, last_err, tried, addr_col, ui, sel_sido,
                   keyword, df, bar, korea, view_state, out, err>>

(* one iteration of the for loop of load_csv *)
LoadTry ==
    /\ pc = "load"
    /\ cache = NoTable
    /\ enc_i <= Len(ENCODINGS)
    /\ LET enc == ENCODINGS[enc_i]
       IN  /\ tried' = Append(tried, enc)
           /\ IF enc \in file.decodable
              THEN /\ df_raw' = read_csv(file, enc)
                   /\ cache' = read_csv(file, enc)
                   /\ pc' = "rename"
                   /\ steps' = Append(steps, "load")
                   /\ UNCHANGED <<enc_i, last_err>>
              ELSE /\ last_err' = enc
                   /\ enc_i' = enc_i + 1
                   /\ UNCHANGED <<df_raw, cache, pc, steps>>
    /\ UNCHANGED <<file, addr_col, ui, sel_sido, keyword, df, bar, korea,
                   view_state, out, err>>

(* the loop is over and nothing was returned: raise RuntimeError(last_err) *)
LoadRaise ==
    /\ pc = "load"
    /\ cache = NoTable
    /\ enc_i > Len(ENCODINGS)
    /\ err' = "RuntimeError"
    /\ out' = Append(out, [kind |-> "exception", about |-> <<last_err>>])
    /\ pc' = "error"
    /\ steps' = Append(steps, "load")
    /\ UNCHANGED <<file, cache, enc_i, last_err, tried, df_raw, addr_col, ui,
                   sel_sido, keyword, df, bar, korea, view_state>>

(***************************************************************************)
(* Section 2: the alias columns present are renamed.                       *)
(***************************************************************************)
RenamedColumns(cols) ==
    [j \in 1..Len(cols) |->
        IF cols[j] \in rename_keys THEN rename_map(cols[j]) ELSE cols[j]]

RenameColumns ==
    /\ pc = "rename"
    /\ df_raw' = [df_raw EXCEPT !.columns = RenamedColumns(df_raw.columns)]
    /\ pc' = "detect"
    /\ steps' = Append(steps, "rename")
    /\ UNCHANGED <<file, cache, enc_i, last_err, tried, addr_col, ui, sel_sido,
                   keyword, df, bar, korea, view_state, out, err>>

(***************************************************************************)
(* Section 3: the address column and the region column.                    *)
(***************************************************************************)
IsRoadCol(c) == Contains(c, "doromyeong") /\ Contains(c, "juso")

IsLotCol(c) == Contains(c, "jibeon") /\ Contains(c, "juso")

(* [c for c in df_raw.columns if ...], lines 50-51 *)
road_cols(d) == SelectSeq(d.columns, IsRoadCol)

lot_cols(d) == SelectSeq(d.columns, IsLotCol)

(* the if / elif of lines 53-56 with the lot-number column preferred *)
ChooseLotFirst(roads, lots) ==
    IF lots # <<>> THEN lots[1]
    ELSE IF roads # <<>> THEN roads[1]
    ELSE None

(* lines 53-57: None stands for the else branch *)
ChooseAddrCol(roads, lots) ==
    IF roads # <<>> THEN roads[1]
    ELSE IF lots # <<>> THEN lots[1]
    ELSE None

(* line 64: df_raw["sido"] = ... *)
WithRegion(d, acol) ==
    [d EXCEPT !.columns = Append(d.columns, col_sido),
              !.rows = [i \in 1..Len(d.rows) |->
                           Append(d.rows[i], RegionOf(Col(d, acol)[i]))]]

(* section 3 without the st.stop() of line 62 *)
DetectAddrWithoutStop ==
    /\ pc = "detect"
    /\ LET a == ChooseAddrCol(road_cols(df_raw), lot_cols(df_raw))
       IN  IF a = None
           THEN /\ out' = Append(out, [kind |-> "error", about |-> df_raw.columns])
                /\ pc' = "coerce"
                /\ UNCHANGED <<addr_col, df_raw>>
           ELSE /\ addr_col' = a
                /\ df_raw' = WithRegion(df_raw, a)
                /\ pc' = "coerce"
                /\ UNCHANGED out
    /\ steps' = Append(steps, "detect")
    /\ UNCHANGED <<file, cache, enc_i, last_err, tried, ui, sel_sido, keyword,
                   df, bar, korea, view_state, err>>

DetectAddr ==
    /\ pc = "detect"
    /\ LET a == ChooseAddrCol(road_cols(df_raw), lot_cols(df_raw))
       IN  IF a = None
           THEN /\ out' = Append(out, [kind |-> "error", about |-> df_raw.columns])
                /\ pc' = "stopped"
                /\ UNCHANGED <<addr_col, df_raw>>
           ELSE /\ addr_col' = a
                /\ df_raw' = WithRegion(df_raw, a)
                /\ pc' = "coerce"
                /\ UNCHANGED out
    /\ steps' = Append(steps, "detect")
    /\ UNCHANGED <<file, cache, enc_i, last_err, tried, ui, sel_sido, keyword,
                   df, bar, korea, view_state, err>>

(***************************************************************************)
(* Section 4: the coordinate columns.                                      *)
(***************************************************************************)
IsLatName(c) == Lower(c) \in {<<"lat">>, <<"latitude">>, <<"wido">>}

IsLonName(c) ==
    Lower(c) \in {<<"lon">>, <<"long">>, <<"lng">>, <<"longitude">>, <<"gyeongdo">>}

lat_candidates(d) == SelectSeq(d.columns, IsLatName)

lon_candidates(d) == SelectSeq(d.columns, IsLonName)

(* lines 70-74 *)
RenamedLatLon(d) ==
    LET lats == lat_candidates(d)
        lons == lon_candidates(d)
    IN  IF lats # <<>> /\ lons # <<>>
        THEN [d EXCEPT !.columns =
                 [j \in 1..Len(d.columns) |->
                     IF d.columns[j] = lats[1] THEN col_lat
                     ELSE IF d.columns[j] = lons[1] THEN col_lon
                     ELSE d.columns[j]]]
        ELSE d

Digit(ch) ==
    CASE ch = "0" -> 0 [] ch = "1" -> 1 [] ch = "2" -> 2 [] ch = "3" -> 3
      [] ch = "4" -> 4 [] ch = "5" -> 5 [] ch = "6" -> 6 [] ch = "7" -> 7
      [] ch = "8" -> 8 [] ch = "9" -> 9 [] OTHER -> -1

RECURSIVE ParseDigits(_, _)
ParseDigits(s, acc) ==
    IF s = <<>> THEN acc ELSE ParseDigits(Drop(s, 1), 10 * acc + Digit(s[1]))

(* pd.to_numeric(errors="coerce") on one cell *)
to_numeric(cell) ==
    CASE cell.k = "num" -> cell
      [] cell.k = "na" -> NA
      [] cell.k = "str" ->
            IF cell.s # <<>> /\ \A i \in 1..Len(cell.s) : Digit(cell.s[i]) >= 0
            THEN Num(ParseDigits(cell.s, 0))
            ELSE NA

(* lines 76-78 when both columns exist *)
Coerced(d) ==
    LET la == ColIndex(d, col_lat)
        lo == ColIndex(d, col_lon)
    IN  [d EXCEPT !.rows =
            [i \in 1..Len(d.rows) |->
                [j \in 1..Len(d.columns) |->
                    IF j = la \/ j = lo THEN to_numeric(d.rows[i][j])
                    ELSE d.rows[i][j]]]]

(* df_raw[["lat", "lon"]] raises KeyError when a label is missing *)
CoerceLatLon ==
    /\ pc = "coerce"
    /\ LET d == RenamedLatLon(df_raw)
       IN  IF HasCol(d, col_lat) /\ HasCol(d, col_lon)
           THEN /\ df_raw' = Coerced(d)
                /\ pc' = "widgets"
                /\ UNCHANGED <<err, out>>
           ELSE /\ df_raw' = d
                /\ err' = "KeyError"
                /\ out' = Append(out, [kind |-> "exception", about |-> <<"KeyError">>])
                /\ pc' = "error"
    /\ steps' = Append(steps, "coerce")
    /\ UNCHANGED <<file, cache, enc_i, last_err, tried, addr_col, ui, sel_sido,
                   keyword, df, bar, korea, view_state>>

(***************************************************************************)
(* Section 5: the two input widgets.                                       *)
(***************************************************************************)
(* the options of the selectbox; their sorted order is display only and   *)
(* is not modelled                                                         *)
SidoOptions(d) ==
    {SIDO_ALL} \cup
        {Col(d, col_sido)[i].s :
            i \in {h \in 1..Len(d.rows) : Col(d, col_sido)[h].k = "str"}}

(* what a user may type into the text input *)
KeywordInputs ==
    {<<>>, <<"a">>, <<"A">>, <<"s", " ">>, <<".">>, <<"(">>}

Widgets ==
    /\ pc = "widgets"
    /\ sel_sido' = ui.sido
    /\ keyword' = ui.keyword
    /\ out' = Append(out, [kind |-> "selectbox", about |-> SidoOptions(df_raw)])
    /\ pc' = "filter"
    /\ steps' = Append(steps, "widgets")
    /\ UNCHANGED <<file, cache, enc_i, last_err, tried, df_raw, addr_col, ui,
                   df, bar, korea, view_state, err>>

(***************************************************************************)
(* Section 6: filtering.                                                   *)
(***************************************************************************)
(* df["sido"] == sel_sido; NaN equals nothing *)
RegionMask(d, sel) ==
    [i \in 1..Len(d.rows) |-> Col(d, col_sido)[i] = Str(sel)]

(* lines 92-93 with the sentinel test left out *)
RegionFilterNoSentinel(d, sel) == Take(d, RegionMask(d, sel))

(* lines 92-93 *)
RegionFilter(d, sel) ==
    IF sel # SIDO_ALL THEN Take(d, RegionMask(d, sel)) ELSE d

(* re.compile(pat): an opening parenthesis that is never closed is an     *)
(* error (KeywordInputs has no closing one)                                *)
re_compiles(pat) == \A j \in 1..Len(pat) : pat[j] # "("

(* re.compile(pat, re.IGNORECASE).search(s): "." is any character, every  *)
(* other character of KeywordInputs stands for itself in either case      *)
re_search(pat, s) ==
    \E i \in 0..(Len(s) - Len(pat)) :
        \A j \in 1..Len(pat) :
            pat[j] = "." \/ LowerChar(pat[j]) = LowerChar(s[i + j])

(* Series.str.contains(pat, na=False, case=False) on one cell, regex=True *)
(* being the default                                                       *)
str_contains(cell, pat) == cell.k = "str" /\ re_search(pat, cell.s)

(* the exception lines 96-99 raise, "none" when they raise nothing; the   *)
(* dtype of a column is the one it was loaded with                        *)
KeywordError(d, kw, acol) ==
    IF ~HasCol(d, siseolmyeong) THEN "KeyError"
    ELSE IF ~HasStrAccessor(df_raw, siseolmyeong) THEN "AttributeError"
    ELSE IF ~re_compiles(kw) THEN "re.error"
    ELSE IF ~HasStrAccessor(df_raw, acol) THEN "AttributeError"
    ELSE "none"

(* lines 96-99 *)
KeywordMask(d, kw, acol) ==
    [i \in 1..Len(d.rows) |->
        \/ str_contains(Col(d, siseolmyeong)[i], kw)
        \/ str_contains(Col(d, acol)[i], kw)]

(* lines 95-100 with the mask taken on the whole table *)
KeywordFilterOfRaw(d, kw, acol) ==
    IF kw # <<>> THEN Take(df_raw, KeywordMask(df_raw, kw, acol)) ELSE d

(* lines 95-100 when nothing is raised *)
KeywordFilter(d, kw, acol) ==
    IF kw # <<>> THEN Take(d, KeywordMask(d, kw, acol)) ELSE d

Filter ==
    /\ pc = "filter"
    /\ LET byRegion == RegionFilter(df_raw, sel_sido)
           e == IF keyword # <<>> THEN KeywordError(byRegion, keyword, addr_col)
                ELSE "none"
       IN  IF e = "none"
           THEN /\ df' = KeywordFilter(byRegion, keyword, addr_col)
                /\ out' = Append(out, [kind |-> "caption", about |-> <<Len(df'.rows)>>])
                /\ pc' = "bar"
                /\ UNCHANGED err
           ELSE /\ df' = byRegion
                /\ err' = e
                /\ out' = Append(out, [kind |-> "exception", about |-> <<e>>])
                /\ pc' = "error"
    /\ steps' = Append(steps, "filter")
    /\ UNCHANGED <<file, cache, enc_i, last_err, tried, df_raw, addr_col, ui,
                   sel_sido, keyword, bar, korea, view_state>>

(***************************************************************************)
(* Section 7-1: the bar chart.                                             *)
(***************************************************************************)
(* the keys of groupby("sido"): NaN keys are dropped *)
Groups(d) ==
    {Col(d, col_sido)[i].s :
        i \in {h \in 1..Len(d.rows) : Col(d, col_sido)[h].k = "str"}}

(* .size() of the group g *)
GroupSize(d, g) ==
    Cardinality({i \in 1..Len(d.rows) : Col(d, col_sido)[i] = Str(g)})

(* sort_values() with ascending left at its default *)
IsSortedAscending(b) ==
    \A i \in 1..(Len(b) - 1) : b[i].n <= b[i + 1].n

(* sort_values(ascending=False) *)
IsSortedDescending(b) ==
    \A i \in 1..(Len(b) - 1) : b[i].n >= b[i + 1].n

(* the results line 106 may give: the order of equal counts is not fixed *)
Bars(d) ==
    LET gs == Groups(d)
        entries == {[key |-> g, n |-> GroupSize(d, g)] : g \in gs}
    IN  {b \in [1..Cardinality(gs) -> entries] :
            /\ \A i, j \in 1..Cardinality(gs) : i # j => b[i].key # b[j].key
            /\ IsSortedDescending(b)}

BarChart ==
    /\ pc = "bar"
    /\ \E b \in Bars(df) :
          /\ bar' = b
          /\ out' = Append(out, [kind |-> "bar_chart", about |-> b])
    /\ pc' = "map"
    /\ steps' = Append(steps, "bar")
    /\ UNCHANGED <<file, cache, enc_i, last_err, tried, df_raw, addr_col, ui,
                   sel_sido, keyword, df, korea, view_state, err>>

(***************************************************************************)
(* Section 7-2: the map.                                                   *)
(***************************************************************************)
LAT_MIN == 33

LAT_MAX == 39

LON_MIN == 124

LON_MAX == 132

ZOOM == 7

(* the query of line 112 without its longitude half *)
InLatitudeBand(lat, lon) ==
    lat.k = "num" /\ LAT_MIN <= lat.n /\ lat.n <= LAT_MAX

(* the query of line 112 on one row; a comparison with NaN is false, so   *)
(* the dropna that follows removes nothing more                           *)
InKorea(lat, lon) ==
    /\ lat.k = "num" /\ LAT_MIN <= lat.n /\ lat.n <= LAT_MAX
    /\ lon.k = "num" /\ LON_MIN <= lon.n /\ lon.n <= LON_MAX

KoreaOf(d) ==
    Take(d, [i \in 1..Len(d.rows) |->
                InKorea(Col(d, col_lat)[i], Col(d, col_lon)[i])])

RECURSIVE SumNums(_)
SumNums(cells) ==
    IF cells = <<>> THEN 0 ELSE cells[1].n + SumNums(Drop(cells, 1))

(* lines 116-121: a mean is kept as its sum and its number of terms *)
ViewStateOf(k) ==
    [n |-> Len(k.rows),
     lat_sum |-> SumNums(Col(k, col_lat)),
     lon_sum |-> SumNums(Col(k, col_lon)),
     zoom |-> ZOOM]

Map ==
    /\ pc = "map"
    /\ IF HasCol(df, col_lat) /\ HasCol(df, col_lon)
       THEN LET k == KoreaOf(df)
            IN  /\ korea' = k
                /\ IF k.rows = <<>>
                   THEN /\ out' = Append(out, [kind |-> "info", about |-> <<"no point in range">>])
                        /\ UNCHANGED view_state
                   ELSE /\ view_state' = ViewStateOf(k)
                        /\ out' = Append(out, [kind |-> "pydeck_chart", about |-> k.index])
       ELSE /\ out' = Append(out, [kind |-> "info", about |-> <<"no coordinates">>])
            /\ UNCHANGED <<korea, view_state>>
    /\ pc' = "download"
    /\ steps' = Append(steps, "map")
    /\ UNCHANGED <<file, cache, enc_i, last_err, tried, df_raw, addr_col, ui,
                   sel_sido, keyword, df, bar, err>>

(***************************************************************************)
(* Section 8: the download button.                                         *)
(***************************************************************************)
Download ==
    /\ pc = "download"
    /\ out' = Append(out, [kind |-> "download_button", about |-> df.index])
    /\ pc' = "done"
    /\ steps' = Append(steps, "download")
    /\ UNCHANGED <<file, cache, enc_i, last_err, tried, df_raw, addr_col, ui,
                   sel_sido, keyword, df, bar, korea, view_state, err>>

(***************************************************************************)
(* A user changes a widget: Streamlit reruns the script from the top with  *)
(* the new widget values; load_csv answers from its cache.                 *)
(***************************************************************************)
Interact ==
    /\ pc = "done"
    /\ \E s \in SidoOptions(df_raw), k \in KeywordInputs :
          /\ [sido |-> s, keyword |-> k] # ui
          /\ ui' = [sido |-> s, keyword |-> k]
    /\ pc' = "load"
    /\ enc_i' = 1
    /\ last_err' = "None"
    /\ tried' = <<>>
    /\ df_raw' = NoTable
    /\ addr_col' = None
    /\ df' = NoTable
    /\ bar' = <<>>
    /\ korea' = NoTable
    /\ view_state' = NoView
    /\ out' = <<>>
    /\ err' = "none"
    /\ steps' = <<>>
    /\ sel_sido' = SIDO_ALL
    /\ keyword' = <<>>
    /\ UNCHANGED <<file, cache>>

Next ==
    \/ LoadCached
    \/ LoadTry
    \/ LoadRaise
    \/ RenameColumns
    \/ DetectAddr
    \/ CoerceLatLon
    \/ Widgets
    \/ Filter
    \/ BarChart
    \/ Map
    \/ Download
    \/ Interact

Spec == Init /\ [][Next]_vars

(***************************************************************************)
(* Properties.                                                             *)
(***************************************************************************)
(* the section named has been executed in the current run *)
Did(step) == \E i \in 1..Len(steps) : steps[i] = step

(* the row labelled i is a row of the view d *)
InView(d, i) == \E p \in 1..Len(d.index) : d.index[p] = i

(* the labels of a view are in the order of the source table *)
InSourceOrder(d) ==
    \A p, q \in 1..Len(d.index) : p < q => d.index[p] < d.index[q]

(* the cell of column c in the row of df_raw labelled i *)
RawCell(c, i) == Col(df_raw, c)[i]

HasToken(s) == \E j \in 1..Len(s) : ~IsSpace(s[j])

(* tok is the first whitespace-delimited token of the text s *)
IsFirstToken(tok, s) ==
    /\ tok # <<>>
    /\ \A j \in 1..Len(tok) : ~IsSpace(tok[j])
    /\ \E a \in 0..(Len(s) - Len(tok)) :
          /\ \A j \in 1..a : IsSpace(s[j])
          /\ SubSeq(s, a + 1, a + Len(tok)) = tok
          /\ (a + Len(tok) = Len(s) \/ IsSpace(s[a + Len(tok) + 1]))

(* region is the first token of the text of cell, missing when the text   *)
(* has no token                                                            *)
TokenAgrees(region, cell) ==
    IF HasToken(astype_str(cell))
    THEN region.k = "str" /\ IsFirstToken(region.s, astype_str(cell))
    ELSE region = NA

(* kw occurs in the text cell as a literal, whatever the case of letters *)
LiteralContains(cell, kw) ==
    /\ cell.k = "str"
    /\ \E a \in 0..(Len(cell.s) - Len(kw)) :
          \A j \in 1..Len(kw) : LowerChar(kw[j]) = LowerChar(cell.s[a + j])

(* C1: with an empty keyword the filtered view holds a row of the dataset  *)
(* exactly when the selection is the sentinel (all) or the row's region    *)
(* equals the selection; with the sentinel the view has the row count of   *)
(* the dataset, with a region R every row of the view has region R and the *)
(* view is no longer than the dataset.                                     *)
C1_RegionFilter ==
    (Did("filter") /\ err = "none" /\ keyword = <<>>) =>
        /\ \A i \in 1..Len(df_raw.rows) :
              InView(df, i) <=>
                  (sel_sido = SIDO_ALL \/ RawCell(col_sido, i) = Str(sel_sido))
        /\ InSourceOrder(df)
        /\ sel_sido = SIDO_ALL => Len(df.rows) = Len(df_raw.rows)
        /\ sel_sido # SIDO_ALL =>
              /\ \A p \in 1..Len(df.rows) : Col(df, col_sido)[p] = Str(sel_sido)
              /\ Len(df.rows) <= Len(df_raw.rows)

C1_Witness ==
    /\ Did("filter") /\ err = "none" /\ keyword = <<>>
    /\ sel_sido # SIDO_ALL
    /\ 0 < Len(df.rows) /\ Len(df.rows) < Len(df_raw.rows)

(* C2: for a non-empty keyword a row is kept exactly when the keyword      *)
(* occurs as a case-insensitive literal substring of its facility name or  *)
(* of its address, and the keyword filter raises no error (stated for      *)
(* tables that have a text name column and a text address column).         *)
C2_KeywordLiteral ==
    ( /\ Did("filter") /\ keyword # <<>>
      /\ HasCol(df_raw, siseolmyeong)
      /\ HasStrAccessor(df_raw, siseolmyeong)
      /\ HasStrAccessor(df_raw, addr_col) ) =>
        /\ err = "none"
        /\ \A i \in 1..Len(df_raw.rows) :
              InView(RegionFilter(df_raw, sel_sido), i) =>
                  (InView(df, i) <=>
                      \/ LiteralContains(RawCell(siseolmyeong, i), keyword)
                      \/ LiteralContains(RawCell(addr_col, i), keyword))

(* C3: the view (region filter, then keyword filter) is what the keyword   *)
(* filter followed by the region filter gives, and holds, in source order, *)
(* exactly the rows that satisfy both filter predicates on the dataset.    *)
C3_FiltersCommute ==
    (Did("filter") /\ err = "none") =>
        /\ df = RegionFilter(KeywordFilter(df_raw, keyword, addr_col), sel_sido)
        /\ InSourceOrder(df)
        /\ \A i \in 1..Len(df_raw.rows) :
              InView(df, i) <=>
                  /\ sel_sido = SIDO_ALL \/ RawCell(col_sido, i) = Str(sel_sido)
                  /\ \/ keyword = <<>>
                     \/ str_contains(RawCell(siseolmyeong, i), keyword)
                     \/ str_contains(RawCell(addr_col, i), keyword)
        /\ \A p \in 1..Len(df.rows) : df.rows[p] = df_raw.rows[df.index[p]]

C3_Witness ==
    /\ Did("filter") /\ err = "none"
    /\ keyword # <<>> /\ sel_sido # SIDO_ALL
    /\ 0 < Len(df.rows)
    /\ Len(df.rows) < Len(RegionFilter(df_raw, sel_sido).rows)
    /\ Len(df.rows) < Len(KeywordFilter(df_raw, keyword, addr_col).rows)

(* C4: every row of the map point-set is a row of the filtered view with a *)
(* latitude in [33, 39] and a longitude in [124, 132], neither missing;    *)
(* the map layer gets these rows only and the map centre is their mean.    *)
C4_MapPointsInBox ==
    Did("map") =>
        /\ \A p \in 1..Len(korea.rows) :
              LET i == korea.index[p]
              IN  /\ InView(df, i)
                  /\ RawCell(col_lat, i).k = "num"
                  /\ RawCell(col_lon, i).k = "num"
                  /\ 33 <= RawCell(col_lat, i).n /\ RawCell(col_lat, i).n <= 39
                  /\ 124 <= RawCell(col_lon, i).n /\ RawCell(col_lon, i).n <= 132
        /\ \A o \in 1..Len(out) :
              out[o].kind = "pydeck_chart" =>
                  out[o].about = korea.index /\ korea.rows # <<>>
        /\ view_state.n = Len(korea.rows)
        /\ 33 * view_state.n <= view_state.lat_sum
        /\ view_state.lat_sum <= 39 * view_state.n
        /\ 124 * view_state.n <= view_state.lon_sum
        /\ view_state.lon_sum <= 132 * view_state.n

C4_Witness ==
    /\ Did("map")
    /\ 0 < Len(korea.rows) /\ Len(korea.rows) < Len(df.rows)
    /\ \E o \in 1..Len(out) : out[o].kind = "pydeck_chart"

(* the normalized table lacks a coordinate column, or the map section     *)
(* found no row of the view inside the box                                *)
DegradedCoordinates ==
    \/ ~(HasCol(df_raw, col_lat) /\ HasCol(df_raw, col_lon))
    \/ Did("map") /\ korea.rows = <<>>

(* C5: a run (with an empty keyword) whose table has no latitude/longitude *)
(* columns, or whose view has no row inside the box, ends without error,   *)
(* shows an informational notice and no map, and has executed the filter,  *)
(* the bar chart and the download.                                         *)
C5_DegradedNotFatal ==
    ( /\ pc \in {"done", "error"}
      /\ Did("detect") /\ keyword = <<>>
      /\ DegradedCoordinates ) =>
        /\ err = "none"
        /\ \E o \in 1..Len(out) : out[o].kind = "info"
        /\ \A o \in 1..Len(out) : out[o].kind # "pydeck_chart"
        /\ Did("filter") /\ Did("bar") /\ Did("download")

(* C6: when the normalized table has a road-name and a lot-number address  *)
(* column, the address column chosen is the road-name one, every row's     *)
(* region is the first whitespace token of its road-name address, and the  *)
(* keyword filter reads that same column; the lot-number column is chosen  *)
(* only when there is no road-name column.                                 *)
C6_RoadAddressPreferred ==
    Did("detect") =>
        LET roads == road_cols(df_raw)
            lots == lot_cols(df_raw)
        IN  /\ (roads # <<>> /\ lots # <<>>) =>
                  /\ addr_col = doromyeongjuso
                  /\ addr_col = roads[1]
                  /\ \A i \in 1..Len(df_raw.rows) :
                        TokenAgrees(RawCell(col_sido, i), RawCell(doromyeongjuso, i))
                  /\ (Did("filter") /\ err = "none" /\ keyword # <<>>) =>
                        \A i \in 1..Len(df_raw.rows) :
                            InView(RegionFilter(df_raw, sel_sido), i) =>
                               (InView(df, i) <=>
                                  \/ str_contains(RawCell(siseolmyeong, i), keyword)
                                  \/ str_contains(RawCell(doromyeongjuso, i), keyword))
            /\ (addr_col # None /\ IsLotCol(addr_col) /\ ~IsRoadCol(addr_col)) =>
                  roads = <<>>

C6_Witness ==
    /\ Did("filter") /\ err = "none" /\ keyword # <<>>
    /\ road_cols(df_raw) # <<>> /\ lot_cols(df_raw) # <<>>
    /\ \E i \in 1..Len(df_raw.rows) :
          /\ RawCell(col_sido, i) # RegionOf(RawCell(jibeonjuso, i))
          /\ ~TokenAgrees(RawCell(col_sido, i), RawCell(jibeonjuso, i))
          /\ InView(df, i)
          /\ ~str_contains(RawCell(siseolmyeong, i), keyword)
          /\ ~str_contains(RawCell(jibeonjuso, i), keyword)

C8_SchemaErrorHalts ==
    ( /\ Did("rename")
      /\ road_cols(df_raw) = <<>> /\ lot_cols(df_raw) = <<>> ) =>
        /\ pc \in {"detect", "stopped"}
        /\ Did("detect") =>
              /\ pc = "stopped"
              /\ steps = <<"load", "rename", "detect">>
              /\ out = <<[kind |-> "error", about |-> df_raw.columns]>>
              /\ addr_col = None /\ ~HasCol(df_raw, col_sido)
              /\ df = NoTable /\ bar = <<>> /\ korea = NoTable
        /\ ~ENABLED (pc = "stopped" /\ Next)

C8_Witness ==
    /\ pc = "stopped"
    /\ Len(df_raw.rows) > 0
    /\ HasCol(df_raw, col_lat)

(* C9 as stated: once the address column is chosen every row has a         *)
(* non-missing region, the first whitespace token of its address, also     *)
(* when the address is missing, empty or blank.                            *)
C9_RegionAlwaysDefined ==
    (Did("detect") /\ addr_col # None) =>
        \A i \in 1..Len(df_raw.rows) :
            /\ RawCell(col_sido, i).k = "str"
            /\ IsFirstToken(RawCell(col_sido, i).s, astype_str(RawCell(addr_col, i)))

(* C9 amended: once the address column is chosen, the region of a row is   *)
(* the first whitespace token of the text of its address (a missing        *)
(* address reads "nan"), and is missing when the address is blank.         *)
C9_RegionIsFirstToken ==
    (Did("detect") /\ addr_col # None) =>
        \A i \in 1..Len(df_raw.rows) :
            LET a == RawCell(addr_col, i)
                r == RawCell(col_sido, i)
            IN  /\ TokenAgrees(r, a)
                /\ a.k = "na" => r = Str(<<"n", "a", "n">>)
                /\ (a.k = "str" /\ ~HasToken(a.s)) => r = NA
                /\ (a.k = "str" /\ HasToken(a.s)) =>
                      (r.k = "str" /\ IsFirstToken(r.s, a.s))

C9_Witness ==
    /\ Did("detect") /\ addr_col # None
    /\ \E i \in 1..Len(df_raw.rows) : RawCell(col_sido, i) = NA
    /\ \E i \in 1..Len(df_raw.rows) :
          /\ RawCell(col_sido, i).k = "str"
          /\ IsSpace(RawCell(addr_col, i).s[1])

RECURSIVE SumCounts(_)
SumCounts(b) == IF b = <<>> THEN 0 ELSE b[1].n + SumCounts(Drop(b, 1))

(* the bar mapping has one entry per region of the view, each with the    *)
(* number of rows of that region, in non-increasing order of count        *)
BarEntriesRight ==
    /\ \A p, q \in 1..Len(bar) : p # q => bar[p].key # bar[q].key
    /\ \A i \in 1..Len(df.rows) :
          Col(df, col_sido)[i].k = "str" =>
              \E p \in 1..Len(bar) : bar[p].key = Col(df, col_sido)[i].s
    /\ \A p \in 1..Len(bar) :
          /\ bar[p].n > 0
          /\ bar[p].n = Cardinality({i \in 1..Len(df.rows) :
                                        Col(df, col_sido)[i] = Str(bar[p].key)})
    /\ \A p \in 1..(Len(bar) - 1) : bar[p].n >= bar[p + 1].n
    /\ df.rows = <<>> => bar = <<>>

(* C10 as stated: the entries are right and the counts sum to the row      *)
(* count of the view.                                                      *)
C10_CountsSumToViewRows ==
    Did("bar") => (BarEntriesRight /\ SumCounts(bar) = Len(df.rows))

(* C10 amended: the entries are right and the counts sum to the number of  *)
(* rows of the view whose region is not missing.                           *)
C10_CountsSumToRegionRows ==
    Did("bar") =>
        /\ BarEntriesRight
        /\ SumCounts(bar) =
              Cardinality({i \in 1..Len(df.rows) : Col(df, col_sido)[i].k = "str"})
        /\ SumCounts(bar) <= Len(df.rows)
        /\ \E o \in 1..Len(out) : out[o].kind = "bar_chart" /\ out[o].about = bar

C10_Witness ==
    /\ Did("bar")
    /\ bar # <<>>
    /\ SumCounts(bar) < Len(df.rows)

====
